---- MODULE Spec2Model ----
(***************************************************************************)
(* A model of src/prompts.py: the Job_Post extractor, the Resume_Builder   *)
(* pipeline stages and the deterministic post-processing they apply to the *)
(* answers of the LLM chains (skill merging, relevance sort, cumulative    *)
(* duration).  An LLM chain call (chain.predict) is an input of the model: *)
(* it either raises or returns one answer drawn from a small set.          *)
(*                                                                         *)
(* Python values are modelled as follows: a dict is a function with a      *)
(* string domain, a list is a sequence, a str is a string, and a field     *)
(* that can hold None holds either None or Some(v).                        *)
(***************************************************************************)
EXTENDS Integers, Sequences, FiniteSets, TLC

VARIABLES
    parsed_job,   \* Job_Post.parsed_job
    llm_calls,    \* number of chain.predict calls issued so far
    builders,     \* Resume_Builder instances by name: None until constructed
    ret,          \* what the most recent operation returned or raised
    raw,          \* the raw resume mapping handed to every builder
    skillsCall,   \* one call of _combine_skills_in_category
    mergeCall,    \* category lists merged in place by _combine_skill_lists
    assocCall,    \* the two groupings of three merged category lists
    timeCall,     \* one call of _get_cumulative_time_from_titles
    sortCall,     \* one call of rewrite_section's post-processing
    par,          \* stages of one builder run by threads, step by step
    ctor          \* constructors run by threads, step by step

vars == <<parsed_job, llm_calls, builders, ret, raw,
          skillsCall, mergeCall, assocCall, timeCall, sortCall, par, ctor>>

pipelineVars == <<parsed_job, llm_calls, builders, ret, raw>>

----------------------------------------------------------------------------
(* Bounds of the model *)

MaxCalls == 5        \* chain.predict calls issued in one behaviour
MaxExp == 2          \* raw experience entries
MaxSkills == 3       \* skills in l1 and l2 together, for _combine_skills_in_category
MaxCats == 3         \* categories in the merged category lists together
MaxTitles == 2       \* titles of one experience
MaxItems == 4        \* bullet items in one answer of the section rewriter
MaxMerges == 2       \* merges of l2 into l1 in one behaviour

----------------------------------------------------------------------------
(* Python values *)

None == [none |-> TRUE]

Some(v) == [some |-> v]

SeqsUpTo(S, n) == UNION {[1..k -> S] : k \in 0..n}

Range(s) == {s[i] : i \in DOMAIN s}

\* str.lower() on the strings the model uses
Lower(s) ==
    CASE s = "SQL" -> "sql"
      [] s = "Sql" -> "sql"
      [] s = "Git" -> "git"
      [] s = "Technical" -> "technical"
      [] s = "TECHNICAL" -> "technical"
      [] s = "Non-technical" -> "non-technical"
      [] s = "Languages" -> "languages"
      [] OTHER -> s

----------------------------------------------------------------------------
(* _combine_skills_in_category and _combine_skill_lists *)

\* the loop of _combine_skills_in_category from position k of l2 on; l1_lower
\* is the set built before the loop and is not updated by the appends
RECURSIVE CombineSkillsLoop(_, _, _, _)
CombineSkillsLoop(l1, l1_lower, l2, k) ==
    IF k > Len(l2) THEN l1
    ELSE IF Lower(l2[k]) \notin l1_lower
         THEN CombineSkillsLoop(Append(l1, l2[k]), l1_lower, l2, k + 1)
         ELSE CombineSkillsLoop(l1, l1_lower, l2, k + 1)

\* a merge that stops at the first skill it appends
CombineSkillsFirstOnly(l1, l2) ==
    LET new == CombineSkillsLoop(<<>>, {Lower(l1[i]) : i \in DOMAIN l1}, l2, 1)
    IN  IF new = <<>> THEN l1 ELSE Append(l1, new[1])

CombineSkillsInCategory(l1, l2) ==
    CombineSkillsLoop(l1, {Lower(l1[i]) : i \in DOMAIN l1}, l2, 1)

\* A heap maps the identity of a category dict to its contents; a category
\* list is a sequence of identities, so that one dict can sit in two lists.

\* the keys of l1_categories_lowercase
CategoryKeys(h, l1) == {Lower(h[l1[i]].category) : i \in DOMAIN l1}

\* l1_categories_lowercase[name]: a dict comprehension keeps the last index
CategoryIndex(h, l1, name) ==
    CHOOSE i \in DOMAIN l1 :
        /\ Lower(h[l1[i]].category) = name
        /\ \A j \in DOMAIN l1 : Lower(h[l1[j]].category) = name => j <= i

\* one turn of the loop of _combine_skill_lists where the skills of l1's
\* category are merged into the category dict of l2
CombineListsTurnInto_l2(h, l1_0, l1, s) ==
    LET name == Lower(h[s].category)
    IN  IF name \in CategoryKeys(h, l1_0)
        THEN LET target == l1[CategoryIndex(h, l1_0, name)]
                 merged == CombineSkillsInCategory(h[s].skills, h[target].skills)
             IN  [heap |-> [h EXCEPT ![s].skills = merged], l1 |-> l1]
        ELSE [heap |-> h, l1 |-> Append(l1, s)]

\* one turn of the loop of _combine_skill_lists, for the category dict s of l2
CombineListsTurn(h, l1_0, l1, s) ==
    LET name == Lower(h[s].category)
    IN  IF name \in CategoryKeys(h, l1_0)
        THEN LET target == l1[CategoryIndex(h, l1_0, name)]
                 merged == CombineSkillsInCategory(h[target].skills, h[s].skills)
             IN  [heap |-> [h EXCEPT ![target].skills = merged], l1 |-> l1]
        ELSE [heap |-> h, l1 |-> Append(l1, s)]

\* the loop of _combine_skill_lists from position k of l2 on; l1_0 is l1 as it
\* was when the index was built
RECURSIVE CombineListsLoop(_, _, _, _, _)
CombineListsLoop(h, l1_0, l1, l2, k) ==
    IF k > Len(l2) THEN [heap |-> h, l1 |-> l1]
    ELSE LET s == l2[k]
             name == Lower(h[s].category)
         IN  IF name \in CategoryKeys(h, l1_0)
             THEN LET target == l1[CategoryIndex(h, l1_0, name)]
                      merged == CombineSkillsInCategory(h[target].skills, h[s].skills)
                  IN  CombineListsLoop([h EXCEPT ![target].skills = merged],
                                       l1_0, l1, l2, k + 1)
             ELSE CombineListsLoop(h, l1_0, Append(l1, s), l2, k + 1)

CombineSkillLists(h, l1, l2) == CombineListsLoop(h, l1, l1, l2, 1)

\* the contents of a category list
ListValue(h, l) == [i \in DOMAIN l |-> h[l[i]]]

\* the identities a+1 .. b, in order: a list of b - a fresh dicts
Ids(a, b) == [k \in 1..(b - a) |-> a + k]

SkillNames == {"sql", "SQL", "Sql", "git"}

CategoryNames == {"Technical", "TECHNICAL", "Languages"}

\* the skill lists of the categories that are merged
CategorySkills == {<<>>, <<"sql">>, <<"SQL">>, <<"git", "Sql">>}

Categories == [category : CategoryNames, skills : CategorySkills]

\* no two strings of the list are equal ignoring case
NoCaseDuplicates(l) ==
    \A i, j \in DOMAIN l : Lower(l[i]) = Lower(l[j]) => i = j

\* the category names of a list of category dicts (given by value)
CategoryNamesOf(v) == [i \in DOMAIN v |-> v[i].category]

----------------------------------------------------------------------------
(* parse_date, datediff_years and _get_cumulative_time_from_titles *)

\* parse_date on the date strings the model uses: <<year, month, day>>
parse_date(d) ==
    CASE d = "2020-01-01" -> <<2020, 1, 1>>
      [] d = "2020-01-15" -> <<2020, 1, 15>>
      [] d = "April 2020" -> <<2020, 4, 1>>
      [] d = "2020-07-01" -> <<2020, 7, 1>>
      [] d = "2020-07-20" -> <<2020, 7, 20>>
      [] d = "2021-04-01" -> <<2021, 4, 1>>
      [] d = "2022-07-01" -> <<2022, 7, 1>>
      [] d = "2023-01-01" -> <<2023, 1, 1>>

\* date.today().strftime("%Y-%m-%d")
Today == "2023-01-01"

DateBefore(a, b) ==
    \/ a[1] < b[1]
    \/ a[1] = b[1] /\ a[2] < b[2]
    \/ a[1] = b[1] /\ a[2] = b[2] /\ a[3] < b[3]

\* a date plus a number of months (the days of the model exist in every month)
AddMonths(d, n) ==
    LET m0 == d[1] * 12 + (d[2] - 1) + n
    IN  <<m0 \div 12, (m0 % 12) + 1, d[3]>>

\* relativedelta(dt1, dt2), as its whole number of months: the month
\* difference, moved one month toward zero when dt2 plus that many months
\* passes dt1; relativedelta's years and months are this number split by 12
\* with the sign kept
RelativeMonths(dt1, dt2) ==
    LET months == (dt1[1] - dt2[1]) * 12 + (dt1[2] - dt2[2])
        dtm == AddMonths(dt2, months)
    IN  IF DateBefore(dt1, dt2)
        THEN IF DateBefore(dtm, dt1) THEN months + 1 ELSE months
        ELSE IF DateBefore(dt1, dtm) THEN months - 1 ELSE months

\* datediff_years in twelfths of a year: years * 1.0 + months / 12.0
datediff_years(start_date, end_date) ==
    RelativeMonths(parse_date(end_date), parse_date(start_date))

\* Python's round() of n twelfths: to the nearest integer, a half to the even
\* neighbour
RoundTwelfths(n) ==
    LET q == n \div 12
        r == n % 12
    IN  IF r < 6 THEN q
        ELSE IF r > 6 THEN q + 1
        ELSE IF q % 2 = 0 THEN q ELSE q + 1

Unbound == "<unbound>"

\* the loop of _get_cumulative_time_from_titles from title k on; result is in
\* twelfths, last_date is the local variable, Unbound until first assigned
RECURSIVE CumulativeLoop(_, _, _, _)
CumulativeLoop(titles, k, result, last_date) ==
    IF k > Len(titles) THEN [status |-> "ok", value |-> RoundTwelfths(result)]
    ELSE LET t == titles[k]
             last == IF "startdate" \in DOMAIN t /\ "enddate" \in DOMAIN t
                     THEN IF t["enddate"] = "current" THEN Today ELSE t["enddate"]
                     ELSE last_date
         IN  IF "startdate" \notin DOMAIN t
             THEN [status |-> "KeyError", value |-> 0]
             ELSE IF last = Unbound
             THEN [status |-> "UnboundLocalError", value |-> 0]
             ELSE CumulativeLoop(titles, k + 1,
                                 result + datediff_years(t["startdate"], last), last)

get_cumulative_time_from_titles(titles) == CumulativeLoop(titles, 1, 0, Unbound)

StartDates == {"2020-01-01", "2020-01-15"}

EndDates == {"April 2020", "2020-07-01", "2020-07-20", "2021-04-01", "2022-07-01", "current"}

Titles ==
    [startdate : StartDates, enddate : EndDates]
        \cup [startdate : StartDates, names : {"Engineer"}]
        \cup [enddate : {"2020-07-01"}, names : {"Engineer"}]
        \cup [names : {"Engineer"}]

HasDates(t) == "startdate" \in DOMAIN t /\ "enddate" \in DOMAIN t

\* the title lists whose float sum is exact: m / 12.0 is a binary fraction
\* when m is a multiple of 3, and one addition to 0.0 is always exact enough
\* not to cross a half
FloatExact(titles) ==
    \/ Len(titles) <= 1
    \/ \A i, j \in DOMAIN titles :
           ("startdate" \in DOMAIN titles[i] /\ HasDates(titles[j])) =>
               datediff_years(titles[i]["startdate"],
                              IF titles[j]["enddate"] = "current" THEN Today
                              ELSE titles[j]["enddate"]) % 3 = 0

TitleLists == {ts \in SeqsUpTo(Titles, MaxTitles) : FloatExact(ts)}

----------------------------------------------------------------------------
(* the post-processing of rewrite_section *)

\* a sort key that orders by increasing relevance
SortKeyAscending(d) == d["relevance"]

\* the sort key of rewrite_section: lambda d: d["relevance"] * -1
SortKey(d) == d["relevance"] * (-1)

\* sorted() inserts each element after the elements whose key is not greater
\* (a stable insertion sort, ascending by key)
InsertSorted(s, x) ==
    LET p == Cardinality({i \in DOMAIN s : SortKey(s[i]) <= SortKey(x)})
    IN  SubSeq(s, 1, p) \o <<x>> \o SubSeq(s, p + 1, Len(s))

RECURSIVE SortedPrefix(_, _)
SortedPrefix(items, k) ==
    IF k = 0 THEN <<>> ELSE InsertSorted(SortedPrefix(items, k - 1), items[k])

\* what rewrite_section returns for the answer of the section rewriter
SortedSection(items) ==
    LET section_revised == SortedPrefix(items, Len(items))
    IN  [i \in DOMAIN section_revised |-> section_revised[i]["item"]]

ResumeItems == [item : {"led", "built"}, relevance : 1..5]

----------------------------------------------------------------------------
(* The pipeline's objects *)

Builders == {"b1", "b2"}

NoRet ==
    [op |-> "none", b |-> "none", status |-> "ok", calls |-> 0, value |-> None,
     log |-> <<>>]

\* a raw resume with no experiences and no skills
EmptyResume ==
    [basic |-> "basic", education |-> "education", experiences |-> <<>>, skills |-> <<>>]

Idle == [pc |-> "idle"]

PipelineIdle ==
    /\ parsed_job = None
    /\ llm_calls = 0
    /\ builders = [b \in Builders |-> None]
    /\ ret = NoRet
    /\ raw = EmptyResume

----------------------------------------------------------------------------
(* The answers of the LLM chains *)

\* chain.predict raised (schema validation or provider failure)
LLMFail == [fail |-> TRUE]

\* Job_Description.dict()
JobDescriptionAnswers ==
    {[company |-> "Acme", job_title |-> "Engineer", team |-> "null",
      job_summary |-> "summary", applying_deadline |-> "null", salary |-> "null",
      duties |-> d, skill_and_experience_requirements |-> <<"sql">>,
      is_fully_remote |-> FALSE] : d \in {<<"build">>, <<"build", "lead">>}}

\* Job_Skills.dict()
JobSkillsAnswers ==
    {[technical_skill_requirements |-> <<"sql">>, soft_skill_requirements |-> <<"teamwork">>]}

\* Resume_List.dict()
ResumeListAnswers ==
    {[items |-> <<[item |-> "led", relevance |-> 3], [item |-> "built", relevance |-> 5]>>],
     [items |-> <<[item |-> "built", relevance |-> 4]>>]}

\* Resume_Skills.dict()
ResumeSkillsAnswers ==
    {[software_skills |-> <<"sql">>, soft_skills |-> <<>>],
     [software_skills |-> <<"git">>, soft_skills |-> <<"teamwork">>]}

\* Resume_Improvements.dict()
ResumeImprovementsAnswers ==
    {[missing_requirements |-> <<"degree">>, improvements |-> <<"add metrics">>]}

\* Language_Improvements.dict()
LanguageImprovementsAnswers ==
    {[fixes |-> <<>>], [fixes |-> <<[error |-> "teh", fix |-> "the"]>>]}

\* Resume_Summary.dict()
ResumeSummaryAnswers == {[summary |-> "Engineer with SQL"]}

----------------------------------------------------------------------------
(* Job_Post *)

\* dict | dict
DictUnion(a, b) ==
    [k \in DOMAIN a \cup DOMAIN b |-> IF k \in DOMAIN b THEN b[k] ELSE a[k]]

\* Job_Post.posting
Posting == "posting"

\* the placeholders of the prompt template of _skills_extractor_chain
SkillsExtractorInputs == {"duties", "skill_and_experience_requirements"}

\* a prompt is rendered from the keyword arguments its template names; the
\* other keyword arguments of predict(**kwargs) are not used
PromptInputs(input_variables, kwargs) == [k \in input_variables |-> kwargs[k]]

\* a run of parse_job_post that assigns parsed_job as soon as the first chain
\* has returned
JobPostRunAssignEarly(d, js) ==
    LET call1 == [chain |-> "_parser_chain", inputs |-> [input |-> Posting], answer |-> d]
        call2 == [chain |-> "_skills_extractor_chain",
                  inputs |-> PromptInputs(SkillsExtractorInputs, d), answer |-> js]
    IN  IF d = LLMFail
        THEN [status |-> "ChainError", calls |-> 1, assigned |-> FALSE, job |-> None,
              log |-> <<call1>>]
        ELSE IF js = LLMFail
        THEN [status |-> "ChainError", calls |-> 2, assigned |-> TRUE, job |-> d,
              log |-> <<call1, call2>>]
        ELSE [status |-> "ok", calls |-> 2, assigned |-> TRUE, job |-> DictUnion(d, js),
              log |-> <<call1, call2>>]

\* one run of parse_job_post, given what the two chains do: d is what the job
\* description chain does, js what the skills chain does if it is called
JobPostRun(d, js) ==
    LET call1 == [chain |-> "_parser_chain", inputs |-> [input |-> Posting], answer |-> d]
        call2 == [chain |-> "_skills_extractor_chain",
                  inputs |-> PromptInputs(SkillsExtractorInputs, d), answer |-> js]
    IN  IF d = LLMFail
        THEN [status |-> "ChainError", calls |-> 1, assigned |-> FALSE, job |-> None,
              log |-> <<call1>>]
        ELSE IF js = LLMFail
        THEN [status |-> "ChainError", calls |-> 2, assigned |-> FALSE, job |-> None,
              log |-> <<call1, call2>>]
        ELSE [status |-> "ok", calls |-> 2, assigned |-> TRUE, job |-> DictUnion(d, js),
              log |-> <<call1, call2>>]

\* a parse_job_post that returns the stored record when there is one
parse_job_post_memoized ==
    IF parsed_job # None
    THEN {[status |-> "ok", calls |-> 0, assigned |-> FALSE, job |-> parsed_job,
           log |-> <<>>]}
    ELSE {JobPostRun(d, js) : d \in JobDescriptionAnswers \cup {LLMFail},
                              js \in JobSkillsAnswers \cup {LLMFail}}

\* the ways one run of parse_job_post can end: the first chain raises, the
\* second chain raises, or both return and parsed_job is assigned
parse_job_post ==
    {JobPostRun(d, js) : d \in JobDescriptionAnswers \cup {LLMFail},
                         js \in JobSkillsAnswers \cup {LLMFail}}

\* Job_Post.parse_job_post(), called on the job post directly
ParseJobPost ==
    /\ llm_calls + 2 <= MaxCalls
    /\ \E o \in parse_job_post :
          /\ llm_calls' = llm_calls + o.calls
          /\ parsed_job' = IF o.assigned THEN o.job ELSE parsed_job
          /\ ret' = [op |-> "parse_job_post", b |-> "none", status |-> o.status,
                     calls |-> o.calls, value |-> o.job, log |-> o.log]
    /\ UNCHANGED <<builders, raw,
                   skillsCall, mergeCall, assocCall, timeCall, sortCall, par, ctor>>

----------------------------------------------------------------------------
(* Resume_Builder *)

\* utils.get_dict_field(field, resume)
get_dict_field(field, resume) ==
    IF field \in DOMAIN resume THEN resume[field] ELSE <<>>

\* a constructor that parses again whatever parsed_job holds
NeverParsed(job) == FALSE

\* "if not self.job_post.parsed_job": None is false, a job record is a dict
\* of eleven keys and is true
IsParsed(job) == job # None

\* _get_degrees: the names of the dicts found under a "degrees" key; the raw
\* resumes of the model hold no such key
get_degrees(resume) == <<>>

\* the fields __init__ sets once the job post is parsed
NewBuilderFields(resume) ==
    [degrees |-> get_degrees(resume),
     experiences_raw |-> get_dict_field("experiences", resume),
     skills_raw |-> get_dict_field("skills", resume),
     projects_raw |-> get_dict_field("projects", resume),
     basic_info |-> get_dict_field("basic", resume),
     education |-> get_dict_field("education", resume),
     projects |-> None,
     experiences |-> None,
     skills |-> None,
     summary |-> None]

\* Resume_Builder(raw_resume, job_post)
NewBuilder(b) ==
    /\ builders[b] = None
    /\ IF ~IsParsed(parsed_job)
       THEN /\ llm_calls + 2 <= MaxCalls
            /\ \E o \in parse_job_post :
                  /\ llm_calls' = llm_calls + o.calls
                  /\ parsed_job' = IF o.assigned THEN o.job ELSE parsed_job
                  /\ builders' = IF o.status = "ok"
                                 THEN [builders EXCEPT ![b] = NewBuilderFields(raw)]
                                 ELSE builders
                  /\ ret' = [op |-> "Resume_Builder", b |-> b, status |-> o.status,
                             calls |-> o.calls, value |-> None, log |-> o.log]
       ELSE /\ builders' = [builders EXCEPT ![b] = NewBuilderFields(raw)]
            /\ ret' = [op |-> "Resume_Builder", b |-> b, status |-> "ok",
                       calls |-> 0, value |-> None, log |-> <<>>]
            /\ UNCHANGED <<llm_calls, parsed_job>>
    /\ UNCHANGED <<raw,
                   skillsCall, mergeCall, assocCall, timeCall, sortCall, par, ctor>>

\* what a chain can do when it is called: raise, or return one of its answers;
\* a chain that is not reached (the stage raised before) does nothing
ChainAnswers(answers, status) == IF status = "ok" THEN answers \cup {LLMFail} ELSE {LLMFail}

\* what an operation leaves in ret
Returned(op, b, status, calls, value, log) ==
    [op |-> op, b |-> b, status |-> status, calls |-> calls, value |-> value,
     log |-> log]

\* a dict without one key, and a dict with one key set
DictPop(d, key) == [k \in DOMAIN d \ {key} |-> d[k]]

DictSet(d, key, v) == [k \in DOMAIN d \cup {key} |-> IF k = key THEN v ELSE d[k]]

\* the loop of _format_experiences_for_prompt from entry k on
RECURSIVE FormatExperiencesLoop(_, _, _)
FormatExperiencesLoop(exps, k, result) ==
    IF k > Len(exps) THEN [status |-> "ok", value |-> result]
    ELSE LET exp == exps[k]
             time == IF "titles" \in DOMAIN exp
                     THEN get_cumulative_time_from_titles(exp["titles"])
                     ELSE [status |-> "ok", value |-> 0]
             curr == [years |-> IF "titles" \in DOMAIN exp THEN Some(time.value) ELSE None,
                      highlights |-> IF "highlights" \in DOMAIN exp
                                     THEN exp["highlights"] ELSE <<>>]
         IN  IF time.status # "ok" THEN [status |-> time.status, value |-> <<>>]
             ELSE IF "highlights" \in DOMAIN exp
             THEN FormatExperiencesLoop(exps, k + 1, Append(result, curr))
             ELSE FormatExperiencesLoop(exps, k + 1, result)

\* a formatter that takes an unset field for an empty list
format_experiences_none_as_empty(experiences) ==
    IF experiences = None THEN [status |-> "ok", value |-> <<>>]
    ELSE FormatExperiencesLoop(experiences.some, 1, <<>>)

\* _format_experiences_for_prompt: iterating None raises TypeError
format_experiences_for_prompt(experiences) ==
    IF experiences = None THEN [status |-> "TypeError", value |-> <<>>]
    ELSE FormatExperiencesLoop(experiences.some, 1, <<>>)

\* _format_skills_for_prompt: iterating None raises TypeError
format_skills_for_prompt(skills) ==
    IF skills = None THEN [status |-> "TypeError", value |-> <<>>]
    ELSE [status |-> "ok",
          value |-> SelectSeq(skills.some, LAMBDA cat : "skills" \in DOMAIN cat)]

\* one chain.predict call: the chain and what it did
Call(chain, answer) == [chain |-> chain, answer |-> answer]

\* a rewrite_section that catches the error of the chain and returns no items
rewrite_section_suppressed(answer) ==
    LET log == <<Call("_section_rewriter_chain", answer)>>
    IN  IF ~IsParsed(parsed_job)
        THEN [status |-> "TypeError", calls |-> 0, value |-> <<>>, log |-> <<>>]
        ELSE IF answer = LLMFail
        THEN [status |-> "ok", calls |-> 1, value |-> <<>>, log |-> log]
        ELSE [status |-> "ok", calls |-> 1, value |-> SortedSection(answer["items"]),
              log |-> log]

\* rewrite_section, given what the section rewriter chain does
rewrite_section(answer) ==
    LET log == <<Call("_section_rewriter_chain", answer)>>
    IN  IF ~IsParsed(parsed_job)
        THEN [status |-> "TypeError", calls |-> 0, value |-> <<>>, log |-> <<>>]
        ELSE IF answer = LLMFail
        THEN [status |-> "ChainError", calls |-> 1, value |-> <<>>, log |-> log]
        ELSE [status |-> "ok", calls |-> 1, value |-> SortedSection(answer["items"]),
              log |-> log]

\* Resume_Builder.rewrite_section(section)
RewriteSection(b) ==
    /\ builders[b] # None
    /\ llm_calls + 1 <= MaxCalls
    /\ \E answer \in ResumeListAnswers \cup {LLMFail} :
          LET r == rewrite_section(answer)
          IN  /\ llm_calls' = llm_calls + r.calls
              /\ ret' = Returned("rewrite_section", b, r.status, r.calls, r.value, r.log)
    /\ UNCHANGED <<parsed_job, builders, raw,
                   skillsCall, mergeCall, assocCall, timeCall, sortCall, par, ctor>>

\* a test that takes every entry that has the key for one to rewrite
HasKeyOnly(v) == v # "<None>"

\* "if experience_unedited": None, "" and [] are false
IsTruthy(v) == v # "" /\ v # "<None>"

\* the raw entries for which rewrite_unedited_experiences calls the chain
Rewritten(exp_raw) == "unedited" \in DOMAIN exp_raw /\ IsTruthy(exp_raw["unedited"])

\* the loop of rewrite_unedited_experiences from entry k on; answers[k] is what
\* the section rewriter chain does when it is called for entry k
RECURSIVE RewriteLoop(_, _, _, _, _, _)
RewriteLoop(experiences_raw, answers, k, result, calls, log) ==
    IF k > Len(experiences_raw)
    THEN [status |-> "ok", calls |-> calls, value |-> result, log |-> log]
    ELSE LET exp_raw == experiences_raw[k]
             exp == DictPop(exp_raw, "unedited")
             experience_unedited == IF "unedited" \in DOMAIN exp_raw
                                    THEN exp_raw["unedited"] ELSE "<None>"
         IN  IF IsTruthy(experience_unedited)
             THEN LET r == rewrite_section(answers[k])
                  IN  IF r.status # "ok"
                      THEN [status |-> r.status, calls |-> calls + r.calls, value |-> <<>>,
                            log |-> log \o r.log]
                      ELSE RewriteLoop(experiences_raw, answers, k + 1,
                                       Append(result, DictSet(exp, "highlights", r.value)),
                                       calls + r.calls, log \o r.log)
             ELSE RewriteLoop(experiences_raw, answers, k + 1, Append(result, exp),
                              calls, log)

rewrite_unedited_experiences(experiences_raw, answers) ==
    RewriteLoop(experiences_raw, answers, 1, <<>>, 0, <<>>)

\* Resume_Builder.rewrite_unedited_experiences()
RewriteUneditedExperiences(b) ==
    /\ builders[b] # None
    /\ llm_calls + Len(builders[b].experiences_raw) <= MaxCalls
    /\ \E answers \in [DOMAIN builders[b].experiences_raw -> ResumeListAnswers \cup {LLMFail}] :
          /\ \A k \in DOMAIN answers :
                ~Rewritten(builders[b].experiences_raw[k]) => answers[k] = LLMFail
          /\
             LET r == rewrite_unedited_experiences(builders[b].experiences_raw, answers)
             IN  /\ llm_calls' = llm_calls + r.calls
                 /\ ret' = Returned("rewrite_unedited_experiences", b, r.status,
                                    r.calls, r.value, r.log)
    /\ UNCHANGED <<parsed_job, builders, raw,
                   skillsCall, mergeCall, assocCall, timeCall, sortCall, par, ctor>>

\* extract_skills, given what the skill selector chain does: the result and
\* the contents of skills_raw afterwards
extract_skills(bd, answer) ==
    LET experiences == format_experiences_for_prompt(bd.experiences)
        n == Len(bd.skills_raw)
        result == <<[category |-> "Technical", skills |-> answer["software_skills"]],
                    [category |-> "Non-technical", skills |-> answer["soft_skills"]]>>
        r == CombineSkillLists(result \o bd.skills_raw, Ids(0, 2), Ids(2, 2 + n))
        log == <<Call("_skill_selector_chain", answer)>>
    IN  IF ~IsParsed(parsed_job) \/ experiences.status # "ok"
        THEN [status |-> IF ~IsParsed(parsed_job) THEN "TypeError" ELSE experiences.status,
              calls |-> 0, value |-> <<>>, skills_raw |-> bd.skills_raw, log |-> <<>>]
        ELSE IF answer = LLMFail
        THEN [status |-> "ChainError", calls |-> 1, value |-> <<>>,
              skills_raw |-> bd.skills_raw, log |-> log]
        ELSE [status |-> "ok", calls |-> 1, value |-> ListValue(r.heap, r.l1),
              skills_raw |-> ListValue(r.heap, Ids(2, 2 + n)), log |-> log]

\* Resume_Builder.extract_skills(); skills_raw is the list the raw resume holds
ExtractSkills(b) ==
    /\ builders[b] # None
    /\ llm_calls + 1 <= MaxCalls
    /\ \E answer \in ChainAnswers(ResumeSkillsAnswers,
                                   format_experiences_for_prompt(builders[b].experiences).status) :
          LET r == extract_skills(builders[b], answer)
          IN  /\ llm_calls' = llm_calls + r.calls
              /\ ret' = Returned("extract_skills", b, r.status, r.calls, r.value, r.log)
              /\ raw' = [raw EXCEPT !.skills = r.skills_raw]
              /\ builders' = [x \in Builders |->
                                 IF builders[x] = None THEN None
                                 ELSE [builders[x] EXCEPT !.skills_raw = r.skills_raw]]
    /\ UNCHANGED <<parsed_job,
                   skillsCall, mergeCall, assocCall, timeCall, sortCall, par, ctor>>

\* the prompt inputs suggest_improvements and create_summary build from the
\* builder's fields, in the order the keyword arguments are evaluated
ResumeInputs(bd) ==
    LET experiences == format_experiences_for_prompt(bd.experiences)
        skills == format_skills_for_prompt(bd.skills)
    IN  IF ~IsParsed(parsed_job) THEN "TypeError"
        ELSE IF experiences.status # "ok" THEN experiences.status
        ELSE skills.status

\* "error -> fix"
FormatFix(fix) == <<fix["error"], " -> ", fix["fix"]>>

\* {"Language improvements": language_fixes}
LanguageEntry(language_fixes) == [k \in {"Language improvements"} |-> language_fixes]

\* a report that starts with the missing requirements
ImprovementReportWithMissing(answer1, answer2) ==
    LET language_fixes == [i \in DOMAIN answer2["fixes"] |-> FormatFix(answer2["fixes"][i])]
    IN  Append(answer1["missing_requirements"] \o answer1["improvements"],
               LanguageEntry(language_fixes))

\* what suggest_improvements makes of the two answers: the improvements of
\* the first, and appended to them one dict that holds the rendered fixes
ImprovementReport(answer1, answer2) ==
    LET improvements == answer1["improvements"]
        language_fixes == [i \in DOMAIN answer2["fixes"] |-> FormatFix(answer2["fixes"][i])]
    IN  Append(improvements, LanguageEntry(language_fixes))

\* suggest_improvements, given what the improver chain and the language check
\* chain do
suggest_improvements(bd, answer1, answer2) ==
    LET inputs == ResumeInputs(bd)
        call1 == Call("_improver_chain", answer1)
        call2 == Call("_language_check_chain", answer2)
    IN  IF inputs # "ok" THEN [status |-> inputs, calls |-> 0, value |-> <<>>, log |-> <<>>]
        ELSE IF answer1 = LLMFail
        THEN [status |-> "ChainError", calls |-> 1, value |-> <<>>, log |-> <<call1>>]
        ELSE IF answer2 = LLMFail
        THEN [status |-> "ChainError", calls |-> 2, value |-> <<>>,
              log |-> <<call1, call2>>]
        ELSE [status |-> "ok", calls |-> 2, value |-> ImprovementReport(answer1, answer2),
              log |-> <<call1, call2>>]

\* Resume_Builder.suggest_improvements()
SuggestImprovements(b) ==
    /\ builders[b] # None
    /\ llm_calls + 2 <= MaxCalls
    /\ \E answer1 \in ChainAnswers(ResumeImprovementsAnswers, ResumeInputs(builders[b])) :
       \E answer2 \in ChainAnswers(LanguageImprovementsAnswers,
                                   IF answer1 = LLMFail THEN "ChainError" ELSE "ok") :
          LET r == suggest_improvements(builders[b], answer1, answer2)
          IN  /\ llm_calls' = llm_calls + r.calls
              /\ ret' = Returned("suggest_improvements", b, r.status, r.calls, r.value,
                                 r.log)
    /\ UNCHANGED <<parsed_job, builders, raw,
                   skillsCall, mergeCall, assocCall, timeCall, sortCall, par, ctor>>

\* create_summary, given what the summary writer chain does
create_summary(bd, answer) ==
    LET inputs == ResumeInputs(bd)
        log == <<Call("_summary_writer_chain", answer)>>
    IN  IF inputs # "ok" THEN [status |-> inputs, calls |-> 0, value |-> "", log |-> <<>>]
        ELSE IF answer = LLMFail
        THEN [status |-> "ChainError", calls |-> 1, value |-> "", log |-> log]
        ELSE [status |-> "ok", calls |-> 1, value |-> answer["summary"], log |-> log]

\* Resume_Builder.create_summary()
CreateSummary(b) ==
    /\ builders[b] # None
    /\ llm_calls + 1 <= MaxCalls
    /\ \E answer \in ChainAnswers(ResumeSummaryAnswers, ResumeInputs(builders[b])) :
          LET r == create_summary(builders[b], answer)
          IN  /\ llm_calls' = llm_calls + r.calls
              /\ ret' = Returned("create_summary", b, r.status, r.calls, r.value, r.log)
    /\ UNCHANGED <<parsed_job, builders, raw,
                   skillsCall, mergeCall, assocCall, timeCall, sortCall, par, ctor>>

\* an assembly that takes the raw experiences for the rewritten ones
finalize_raw_experiences(bd) ==
    [basic |-> bd.basic_info,
     summary |-> bd.summary,
     education |-> bd.education,
     projects |-> bd.projects,
     experiences |-> Some(bd.experiences_raw),
     skills |-> bd.skills]

\* finalize: a dict of the six fields as they are
finalize(bd) ==
    [basic |-> bd.basic_info,
     summary |-> bd.summary,
     education |-> bd.education,
     projects |-> bd.projects,
     experiences |-> bd.experiences,
     skills |-> bd.skills]

\* Resume_Builder.finalize(); ret.value holds what the calls of finalize
\* returned that were made on b one right after the other, the last two of
\* them when there were more
Finalize(b) ==
    /\ builders[b] # None
    /\ LET earlier == IF ret.op = "finalize" /\ ret.b = b THEN ret.value ELSE <<>>
           returned == Append(earlier, finalize(builders[b]))
       IN  ret' = Returned("finalize", b, "ok", 0,
                           IF Len(returned) <= 2 THEN returned ELSE Tail(returned), <<>>)
    /\ UNCHANGED <<parsed_job, llm_calls, builders, raw,
                   skillsCall, mergeCall, assocCall, timeCall, sortCall, par, ctor>>

\* the caller stores what a stage returned in the builder's field:
\* builder.experiences = builder.rewrite_unedited_experiences(), and so on
StoreResult(b) ==
    /\ builders[b] # None
    /\ ret.op \in {"rewrite_unedited_experiences", "extract_skills", "create_summary"}
    /\ ret.b = b
    /\ ret.status = "ok"
    /\ builders' = [builders EXCEPT ![b] =
          CASE ret.op = "rewrite_unedited_experiences" ->
                   [@ EXCEPT !.experiences = Some(ret.value)]
            [] ret.op = "extract_skills" -> [@ EXCEPT !.skills = Some(ret.value)]
            [] ret.op = "create_summary" -> [@ EXCEPT !.summary = Some(ret.value)]]
    /\ ret' = Returned("store", b, "ok", 0, ret.op, <<>>)
    /\ UNCHANGED <<parsed_job, llm_calls, raw,
                   skillsCall, mergeCall, assocCall, timeCall, sortCall, par, ctor>>

----------------------------------------------------------------------------
(* The pipeline: one job post, one raw resume, the builders made over them *)

TitleComplete == [startdate |-> "2020-01-01", enddate |-> "2022-07-01"]

TitleNoEnd == [startdate |-> "2020-01-01", names |-> "Engineer"]

RawExperiences ==
    {[titles |-> <<TitleComplete>>, highlights |-> <<"shipped">>],
     [titles |-> <<TitleComplete>>, highlights |-> <<"old">>, unedited |-> "wrote code"],
     [titles |-> <<TitleNoEnd>>, highlights |-> <<"kept">>, unedited |-> ""]}

RawSkills ==
    {<<>>,
     <<[category |-> "TECHNICAL", skills |-> <<"SQL", "git">>],
       [category |-> "Languages", skills |-> <<"en">>]>>}

Init ==
    /\ parsed_job = None
    /\ llm_calls = 0
    /\ builders = [b \in Builders |-> None]
    /\ ret = NoRet
    /\ \E experiences \in SeqsUpTo(RawExperiences, MaxExp) : \E skills \in RawSkills :
          raw = [basic |-> "basic", education |-> "education",
                 experiences |-> experiences, skills |-> skills]
    /\ skillsCall = Idle /\ mergeCall = Idle /\ assocCall = Idle
    /\ timeCall = Idle /\ sortCall = Idle /\ par = Idle /\ ctor = Idle

Next ==
    \/ ParseJobPost
    \/ \E b \in Builders :
          \/ NewBuilder(b)
          \/ RewriteSection(b)
          \/ RewriteUneditedExperiences(b)
          \/ ExtractSkills(b)
          \/ SuggestImprovements(b)
          \/ CreateSummary(b)
          \/ Finalize(b)
          \/ StoreResult(b)

Spec == Init /\ [][Next]_vars

----------------------------------------------------------------------------
(* One call of _combine_skills_in_category(l1, l2) *)

InitSkills ==
    /\ PipelineIdle
    /\ \E flat \in SeqsUpTo(SkillNames, MaxSkills) : \E i \in 0..Len(flat) :
          /\ NoCaseDuplicates(SubSeq(flat, 1, i))
          /\ skillsCall = [pc |-> "call", l1 |-> SubSeq(flat, 1, i),
                           l2 |-> SubSeq(flat, i + 1, Len(flat)),
                           l1_0 |-> SubSeq(flat, 1, i)]
    /\ mergeCall = Idle /\ assocCall = Idle /\ timeCall = Idle /\ sortCall = Idle
    /\ par = Idle /\ ctor = Idle

CombineSkills ==
    /\ skillsCall.pc = "call"
    /\ skillsCall' = [skillsCall EXCEPT
                         !.pc = "done",
                         !.l1 = CombineSkillsInCategory(skillsCall.l1, skillsCall.l2)]
    /\ UNCHANGED <<pipelineVars, mergeCall, assocCall, timeCall, sortCall, par, ctor>>

SpecSkills == InitSkills /\ [][CombineSkills]_vars

----------------------------------------------------------------------------
(* _combine_skill_lists(l1, l2), called again and again on the same objects *)

InitMerge ==
    /\ PipelineIdle
    /\ \E flat \in SeqsUpTo(Categories, MaxCats) : \E i \in 0..Len(flat) :
          /\ NoCaseDuplicates(CategoryNamesOf(SubSeq(flat, 1, i)))
          /\ mergeCall = [pc |-> "call", heap |-> flat, l1 |-> Ids(0, i),
                          l2 |-> Ids(i, Len(flat)), l1_0 |-> SubSeq(flat, 1, i),
                          merges |-> 0]
    /\ skillsCall = Idle /\ assocCall = Idle /\ timeCall = Idle /\ sortCall = Idle
    /\ par = Idle /\ ctor = Idle

CombineLists ==
    /\ mergeCall.pc = "call"
    /\ mergeCall.merges < MaxMerges
    /\ LET r == CombineSkillLists(mergeCall.heap, mergeCall.l1, mergeCall.l2)
       IN  mergeCall' = [mergeCall EXCEPT !.heap = r.heap, !.l1 = r.l1,
                                          !.merges = @ + 1]
    /\ UNCHANGED <<pipelineVars, skillsCall, assocCall, timeCall, sortCall, par, ctor>>

SpecMerge == InitMerge /\ [][CombineLists]_vars

----------------------------------------------------------------------------
(* Three category lists merged in the two groupings, each from fresh copies *)

\* l2 merged into l1, then l3 into l1: the contents of l1
MergeLeftGrouping(v1, v2, v3) ==
    LET n1 == Len(v1)
        n2 == n1 + Len(v2)
        n3 == n2 + Len(v3)
        r1 == CombineSkillLists(v1 \o v2 \o v3, Ids(0, n1), Ids(n1, n2))
        r2 == CombineSkillLists(r1.heap, r1.l1, Ids(n2, n3))
    IN  ListValue(r2.heap, r2.l1)

\* l3 merged into l2, then l2 into l1: the contents of l1
MergeRightGrouping(v1, v2, v3) ==
    LET n1 == Len(v1)
        n2 == n1 + Len(v2)
        n3 == n2 + Len(v3)
        r1 == CombineSkillLists(v1 \o v2 \o v3, Ids(n1, n2), Ids(n2, n3))
        r2 == CombineSkillLists(r1.heap, Ids(0, n1), r1.l1)
    IN  ListValue(r2.heap, r2.l1)

InitAssoc ==
    /\ PipelineIdle
    /\ \E flat \in SeqsUpTo(Categories, MaxCats) :
          \E i \in 0..Len(flat) : \E j \in i..Len(flat) :
             assocCall = [pc |-> "call", l1 |-> SubSeq(flat, 1, i),
                          l2 |-> SubSeq(flat, i + 1, j),
                          l3 |-> SubSeq(flat, j + 1, Len(flat)),
                          left |-> None, right |-> None]
    /\ skillsCall = Idle /\ mergeCall = Idle /\ timeCall = Idle /\ sortCall = Idle
    /\ par = Idle /\ ctor = Idle

MergeLeft ==
    /\ assocCall.pc = "call"
    /\ assocCall.left = None
    /\ assocCall' = [assocCall EXCEPT !.left =
           Some(MergeLeftGrouping(assocCall.l1, assocCall.l2, assocCall.l3))]
    /\ UNCHANGED <<pipelineVars, skillsCall, mergeCall, timeCall, sortCall, par, ctor>>

MergeRight ==
    /\ assocCall.pc = "call"
    /\ assocCall.right = None
    /\ assocCall' = [assocCall EXCEPT !.right =
           Some(MergeRightGrouping(assocCall.l1, assocCall.l2, assocCall.l3))]
    /\ UNCHANGED <<pipelineVars, skillsCall, mergeCall, timeCall, sortCall, par, ctor>>

NextAssoc == MergeLeft \/ MergeRight

SpecAssoc == InitAssoc /\ [][NextAssoc]_vars

----------------------------------------------------------------------------
(* One call of _get_cumulative_time_from_titles(titles) *)

InitTime ==
    /\ PipelineIdle
    /\ \E ts \in TitleLists : timeCall = [pc |-> "call", titles |-> ts]
    /\ skillsCall = Idle /\ mergeCall = Idle /\ assocCall = Idle /\ sortCall = Idle
    /\ par = Idle /\ ctor = Idle

GetCumulativeTime ==
    /\ timeCall.pc = "call"
    /\ LET r == get_cumulative_time_from_titles(timeCall.titles)
       IN  timeCall' = [pc |-> "done", titles |-> timeCall.titles,
                        status |-> r.status, value |-> r.value]
    /\ UNCHANGED <<pipelineVars, skillsCall, mergeCall, assocCall, sortCall, par, ctor>>

SpecTime == InitTime /\ [][GetCumulativeTime]_vars

----------------------------------------------------------------------------
(* The post-processing of one answer of the section rewriter *)

InitSort ==
    /\ PipelineIdle
    /\ \E items \in SeqsUpTo(ResumeItems, MaxItems) :
          sortCall = [pc |-> "call", items |-> items]
    /\ skillsCall = Idle /\ mergeCall = Idle /\ assocCall = Idle /\ timeCall = Idle
    /\ par = Idle /\ ctor = Idle

SortSection ==
    /\ sortCall.pc = "call"
    /\ sortCall' = [pc |-> "done", items |-> sortCall.items,
                    result |-> SortedSection(sortCall.items)]
    /\ UNCHANGED <<pipelineVars, skillsCall, mergeCall, assocCall, timeCall, par, ctor>>

SpecSort == InitSort /\ [][SortSection]_vars

----------------------------------------------------------------------------
(* Stages of one builder run by two threads, one step of one thread at a   *)
(* time.  The dicts that can be shared are kept in two heaps: par.cats for *)
(* the category dicts and par.exps for the experience dicts; the dicts of  *)
(* the raw resume are the first ones of each heap.                          *)

Threads == {"t1", "t2"}

ParallelStages == {"rewrite_section", "rewrite_unedited_experiences", "extract_skills",
                   "suggest_improvements", "create_summary"}

\* the builder whose stages are run
TheBuilder == "b1"

\* a thread about to enter its stage, with the locals of the stage
NewThread(stage) ==
    [stage |-> stage, pc |-> "start", status |-> "ok", value |-> None, log |-> <<>>,
     k |-> 1, result |-> <<>>, exp |-> 0, l1_0 |-> <<>>]

\* the stage of a thread returned or raised
Done(th, status, value, log) ==
    [th EXCEPT !.pc = "done", !.status = status, !.value = value, !.log = @ \o log]

\* exp = dict(exp_raw): a new dict with the items of the raw entry
CopyDict(exps, k) == [heap |-> Append(exps, exps[k]), id |-> Len(exps) + 1]

\* the raw resume and the builder, read from the heaps
RawOf(cats, exps) ==
    [raw EXCEPT !.skills = ListValue(cats, Ids(0, Len(raw.skills))),
                !.experiences = ListValue(exps, Ids(0, Len(raw.experiences)))]

BuildersOf(cats, exps) ==
    [builders EXCEPT
        ![TheBuilder].skills_raw = ListValue(cats, Ids(0, Len(raw.skills))),
        ![TheBuilder].experiences_raw = ListValue(exps, Ids(0, Len(raw.experiences)))]

\* a step of thread t: its new locals, the heaps and the chain calls it made
ThreadStep(t, th, cats, exps, calls) ==
    /\ par' = [threads |-> [par.threads EXCEPT ![t] = th], cats |-> cats, exps |-> exps]
    /\ raw' = RawOf(cats, exps)
    /\ builders' = BuildersOf(cats, exps)
    /\ llm_calls' = llm_calls + calls
    /\ UNCHANGED <<parsed_job, ret, skillsCall, mergeCall, assocCall, timeCall, sortCall,
                   ctor>>

\* rewrite_section, called as a stage
ThreadRewriteSection(t) ==
    LET th == par.threads[t]
    IN  /\ th.stage = "rewrite_section" /\ th.pc = "start"
        /\ \E answer \in ResumeListAnswers \cup {LLMFail} :
              LET r == rewrite_section(answer)
              IN  ThreadStep(t, Done(th, r.status, r.value, r.log), par.cats, par.exps,
                             r.calls)

\* rewrite_unedited_experiences, the head of the loop and the copy and pop of
\* one entry
ThreadRewriteNext(t) ==
    LET th == par.threads[t]
        experiences_raw == builders[TheBuilder].experiences_raw
    IN  /\ th.stage = "rewrite_unedited_experiences" /\ th.pc = "start"
        /\ IF th.k > Len(experiences_raw)
           THEN ThreadStep(t, Done(th, "ok", ListValue(par.exps, th.result), <<>>),
                           par.cats, par.exps, 0)
           ELSE LET c == CopyDict(par.exps, th.k)
                    experience_unedited ==
                        IF "unedited" \in DOMAIN c.heap[c.id]
                        THEN c.heap[c.id]["unedited"] ELSE "<None>"
                    exps == [c.heap EXCEPT ![c.id] = DictPop(@, "unedited")]
                IN  IF IsTruthy(experience_unedited)
                    THEN ThreadStep(t, [th EXCEPT !.pc = "rewrite", !.exp = c.id],
                                    par.cats, exps, 0)
                    ELSE ThreadStep(t, [th EXCEPT !.k = @ + 1,
                                                  !.result = Append(@, c.id)],
                                    par.cats, exps, 0)

\* rewrite_unedited_experiences, the rewrite of one entry
ThreadRewriteCall(t) ==
    LET th == par.threads[t]
    IN  /\ th.stage = "rewrite_unedited_experiences" /\ th.pc = "rewrite"
        /\ \E answer \in ResumeListAnswers \cup {LLMFail} :
              LET r == rewrite_section(answer)
                  exps == [par.exps EXCEPT ![th.exp] = DictSet(@, "highlights", r.value)]
              IN  IF r.status # "ok"
                  THEN ThreadStep(t, Done(th, r.status, <<>>, r.log), par.cats, par.exps,
                                  r.calls)
                  ELSE ThreadStep(t, [th EXCEPT !.pc = "start", !.k = @ + 1,
                                                !.result = Append(@, th.exp),
                                                !.log = @ \o r.log],
                                  par.cats, exps, r.calls)

\* extract_skills, the prompt inputs read from the builder
ThreadExtractFormat(t) ==
    LET th == par.threads[t]
        experiences == format_experiences_for_prompt(builders[TheBuilder].experiences)
    IN  /\ th.stage = "extract_skills" /\ th.pc = "start"
        /\ IF ~IsParsed(parsed_job)
           THEN ThreadStep(t, Done(th, "TypeError", <<>>, <<>>), par.cats, par.exps, 0)
           ELSE IF experiences.status # "ok"
           THEN ThreadStep(t, Done(th, experiences.status, <<>>, <<>>),
                           par.cats, par.exps, 0)
           ELSE ThreadStep(t, [th EXCEPT !.pc = "predict"], par.cats, par.exps, 0)

\* extract_skills, the chain call and the two category dicts made of its
\* answer; the index of _combine_skill_lists is built over these two
ThreadExtractPredict(t) ==
    LET th == par.threads[t]
        n == Len(par.cats)
    IN  /\ th.stage = "extract_skills" /\ th.pc = "predict"
        /\ \E answer \in ResumeSkillsAnswers \cup {LLMFail} :
              LET log == <<Call("_skill_selector_chain", answer)>>
                  result == <<[category |-> "Technical",
                               skills |-> answer["software_skills"]],
                              [category |-> "Non-technical",
                               skills |-> answer["soft_skills"]]>>
              IN  IF answer = LLMFail
                  THEN ThreadStep(t, Done(th, "ChainError", <<>>, log),
                                  par.cats, par.exps, 1)
                  ELSE ThreadStep(t, [th EXCEPT !.pc = "merge", !.k = 1,
                                                !.result = Ids(n, n + 2),
                                                !.l1_0 = Ids(n, n + 2),
                                                !.log = @ \o log],
                                  par.cats \o result, par.exps, 1)

\* extract_skills, one turn of the loop of _combine_skill_lists over
\* skills_raw, and the return after the last
ThreadExtractMerge(t) ==
    LET th == par.threads[t]
    IN  /\ th.stage = "extract_skills" /\ th.pc = "merge"
        /\ IF th.k > Len(builders[TheBuilder].skills_raw)
           THEN ThreadStep(t, Done(th, "ok", ListValue(par.cats, th.result), <<>>),
                           par.cats, par.exps, 0)
           ELSE LET r == CombineListsTurn(par.cats, th.l1_0, th.result, th.k)
                IN  ThreadStep(t, [th EXCEPT !.k = @ + 1, !.result = r.l1],
                               r.heap, par.exps, 0)

\* suggest_improvements up to the return of the improver chain
ThreadSuggestFirst(t) ==
    LET th == par.threads[t]
        inputs == ResumeInputs(builders[TheBuilder])
    IN  /\ th.stage = "suggest_improvements" /\ th.pc = "start"
        /\ \E answer1 \in ChainAnswers(ResumeImprovementsAnswers, inputs) :
              LET log == <<Call("_improver_chain", answer1)>>
              IN  IF inputs # "ok"
                  THEN ThreadStep(t, Done(th, inputs, <<>>, <<>>), par.cats, par.exps, 0)
                  ELSE IF answer1 = LLMFail
                  THEN ThreadStep(t, Done(th, "ChainError", <<>>, log),
                                  par.cats, par.exps, 1)
                  ELSE ThreadStep(t, [th EXCEPT !.pc = "second", !.log = @ \o log],
                                  par.cats, par.exps, 1)

\* suggest_improvements from the second reading of the builder to the return
ThreadSuggestSecond(t) ==
    LET th == par.threads[t]
        inputs == ResumeInputs(builders[TheBuilder])
    IN  /\ th.stage = "suggest_improvements" /\ th.pc = "second"
        /\ \E answer2 \in ChainAnswers(LanguageImprovementsAnswers, inputs) :
              LET log == <<Call("_language_check_chain", answer2)>>
              IN  IF inputs # "ok"
                  THEN ThreadStep(t, Done(th, inputs, <<>>, <<>>), par.cats, par.exps, 0)
                  ELSE IF answer2 = LLMFail
                  THEN ThreadStep(t, Done(th, "ChainError", <<>>, log),
                                  par.cats, par.exps, 1)
                  ELSE ThreadStep(t, Done(th, "ok",
                                          ImprovementReport(th.log[1].answer, answer2),
                                          log),
                                  par.cats, par.exps, 1)

\* create_summary
ThreadCreateSummary(t) ==
    LET th == par.threads[t]
    IN  /\ th.stage = "create_summary" /\ th.pc = "start"
        /\ \E answer \in ChainAnswers(ResumeSummaryAnswers,
                                       ResumeInputs(builders[TheBuilder])) :
              LET r == create_summary(builders[TheBuilder], answer)
              IN  ThreadStep(t, Done(th, r.status, r.value, r.log), par.cats, par.exps,
                             r.calls)

\* the raw skills of the builder whose stages run in parallel
ParallelRawSkills ==
    {<<>>,
     <<[category |-> "TECHNICAL", skills |-> <<"SQL">>],
       [category |-> "Languages", skills |-> <<"en">>]>>}

\* the answers of the chains in the stages that ran before the threads start
EarlierRewriteAnswer == [items |-> <<[item |-> "built", relevance |-> 4]>>]

EarlierSkillsAnswer == [software_skills |-> <<"git">>, soft_skills |-> <<"teamwork">>]

\* the builder is constructed over a parsed job post; no stage has run
\* (assigned = 0), or the experiences were rewritten and stored (1), or the
\* skills were also extracted and stored (2); each thread is given a stage
InitParallel ==
    /\ parsed_job = DictUnion(
           [company |-> "Acme", job_title |-> "Engineer", team |-> "null",
            job_summary |-> "summary", applying_deadline |-> "null", salary |-> "null",
            duties |-> <<"build">>, skill_and_experience_requirements |-> <<"sql">>,
            is_fully_remote |-> FALSE],
           [technical_skill_requirements |-> <<"sql">>,
            soft_skill_requirements |-> <<"teamwork">>])
    /\ llm_calls = 2
    /\ ret = NoRet
    /\ \E experiences \in SeqsUpTo(RawExperiences, MaxExp) :
       \E skills \in ParallelRawSkills :
       \E assigned \in 0..2 : \E stages \in [Threads -> ParallelStages] :
          LET resume == [basic |-> "basic", education |-> "education",
                         experiences |-> experiences, skills |-> skills]
              fresh == NewBuilderFields(resume)
              rewritten == rewrite_unedited_experiences(
                               experiences,
                               [k \in DOMAIN experiences |-> EarlierRewriteAnswer])
              bd1 == [fresh EXCEPT !.experiences = Some(rewritten.value)]
              extracted == extract_skills(bd1, EarlierSkillsAnswer)
              bd2 == [bd1 EXCEPT !.skills = Some(extracted.value)]
          IN  /\ assigned = 2 => extracted.status = "ok"
              /\ raw = resume
              /\ builders = [b \in Builders |->
                                IF b # TheBuilder THEN None
                                ELSE CASE assigned = 0 -> fresh
                                       [] assigned = 1 -> bd1
                                       [] assigned = 2 -> bd2]
              /\ par = [threads |-> [t \in Threads |-> NewThread(stages[t])],
                        cats |-> skills, exps |-> experiences]
    /\ skillsCall = Idle /\ mergeCall = Idle /\ assocCall = Idle
    /\ timeCall = Idle /\ sortCall = Idle /\ ctor = Idle

NextParallel ==
    \E t \in Threads :
        \/ ThreadRewriteSection(t)
        \/ ThreadRewriteNext(t)
        \/ ThreadRewriteCall(t)
        \/ ThreadExtractFormat(t)
        \/ ThreadExtractPredict(t)
        \/ ThreadExtractMerge(t)
        \/ ThreadSuggestFirst(t)
        \/ ThreadSuggestSecond(t)
        \/ ThreadCreateSummary(t)

SpecParallel == InitParallel /\ [][NextParallel]_vars

----------------------------------------------------------------------------
(* Two Resume_Builder constructors run by two threads over one job post    *)
(* that is not parsed yet, one step of one thread at a time                *)

\* a constructor about to test parsed_job; d and js are the locals parsed_job
\* and job_skills of its call of parse_job_post
NewConstructor == [pc |-> "check", d |-> None, js |-> None]

InitRace ==
    /\ PipelineIdle
    /\ ctor = [c \in Builders |-> NewConstructor]
    /\ skillsCall = Idle /\ mergeCall = Idle /\ assocCall = Idle
    /\ timeCall = Idle /\ sortCall = Idle /\ par = Idle

\* "if not self.job_post.parsed_job"
CtorCheck(c) ==
    /\ ctor[c].pc = "check"
    /\ ctor' = [ctor EXCEPT ![c].pc = IF ~IsParsed(parsed_job) THEN "describe"
                                      ELSE "fields"]
    /\ UNCHANGED <<pipelineVars, skillsCall, mergeCall, assocCall, timeCall, sortCall,
                   par>>

\* parse_job_post, the call of the job description chain
CtorDescribe(c) ==
    /\ ctor[c].pc = "describe"
    /\ \E d \in JobDescriptionAnswers \cup {LLMFail} :
          ctor' = [ctor EXCEPT ![c] = IF d = LLMFail
                                      THEN [NewConstructor EXCEPT !.pc = "raised"]
                                      ELSE [pc |-> "skills", d |-> d, js |-> None]]
    /\ llm_calls' = llm_calls + 1
    /\ UNCHANGED <<parsed_job, builders, ret, raw,
                   skillsCall, mergeCall, assocCall, timeCall, sortCall, par>>

\* parse_job_post, the call of the skills chain
CtorSkills(c) ==
    /\ ctor[c].pc = "skills"
    /\ \E js \in JobSkillsAnswers \cup {LLMFail} :
          ctor' = [ctor EXCEPT ![c] = IF js = LLMFail
                                      THEN [NewConstructor EXCEPT !.pc = "raised"]
                                      ELSE [@ EXCEPT !.pc = "assign", !.js = js]]
    /\ llm_calls' = llm_calls + 1
    /\ UNCHANGED <<parsed_job, builders, ret, raw,
                   skillsCall, mergeCall, assocCall, timeCall, sortCall, par>>

\* parse_job_post, the assignment of parsed_job and the return
CtorAssign(c) ==
    /\ ctor[c].pc = "assign"
    /\ parsed_job' = DictUnion(ctor[c].d, ctor[c].js)
    /\ ctor' = [ctor EXCEPT ![c] = [NewConstructor EXCEPT !.pc = "fields"]]
    /\ UNCHANGED <<llm_calls, builders, ret, raw,
                   skillsCall, mergeCall, assocCall, timeCall, sortCall, par>>

\* the rest of __init__: the fields of the builder
CtorFields(c) ==
    /\ ctor[c].pc = "fields"
    /\ builders' = [builders EXCEPT ![c] = NewBuilderFields(raw)]
    /\ ctor' = [ctor EXCEPT ![c].pc = "done"]
    /\ UNCHANGED <<parsed_job, llm_calls, ret, raw,
                   skillsCall, mergeCall, assocCall, timeCall, sortCall, par>>

NextRace ==
    \E c \in Builders :
        \/ CtorCheck(c)
        \/ CtorDescribe(c)
        \/ CtorSkills(c)
        \/ CtorAssign(c)
        \/ CtorFields(c)

SpecRace == InitRace /\ [][NextRace]_vars

----------------------------------------------------------------------------
(* Properties of the post-processing functions *)

\* the items of the given relevance, in the order of the list
WithRelevance(items, r) == SelectSeq(items, LAMBDA d : d["relevance"] = r)

\* the items by non-increasing relevance, equal relevance in list order
StableDescending(items) ==
    LET all == WithRelevance(items, 5) \o WithRelevance(items, 4)
                 \o WithRelevance(items, 3) \o WithRelevance(items, 2)
                 \o WithRelevance(items, 1)
    IN  [i \in DOMAIN all |-> all[i]["item"]]

\* C4: rewrite_section returns exactly the item strings of the model's list,
\* by non-increasing relevance, items of equal relevance in the order they had
\* in the model's list
C4_RewriteSectionStableSort ==
    sortCall.pc = "done" =>
        /\ Len(sortCall.result) = Len(sortCall.items)
        /\ sortCall.result = StableDescending(sortCall.items)

\* ratings [5,3,5,1] come out as the 1st, 3rd, 2nd, 4th item
C4_Witness ==
    /\ sortCall.pc = "done"
    /\ Len(sortCall.items) = 4
    /\ [i \in 1..4 |-> sortCall.items[i]["relevance"]] = <<5, 3, 5, 1>>
    /\ [i \in 1..4 |-> sortCall.items[i]["item"]] = <<"led", "built", "built", "led">>
    /\ sortCall.result = <<"led", "built", "built", "led">>

\* the skills of l2 that are new to l1 ignoring case, each once, in l2 order,
\* in the casing of its first occurrence
RECURSIVE FirstNewSkills(_, _, _)
FirstNewSkills(seen, l2, k) ==
    IF k > Len(l2) THEN <<>>
    ELSE IF Lower(l2[k]) \in seen THEN FirstNewSkills(seen, l2, k + 1)
    ELSE <<l2[k]>> \o FirstNewSkills(seen \cup {Lower(l2[k])}, l2, k + 1)

\* C6: merging l2 into an l1 without case duplicates leaves l1 without case
\* duplicates: the items of l1 keep their place and each skill of l2 that is
\* new ignoring case is appended exactly once
C6_CombineSkillsCaseInsensitiveDedup ==
    skillsCall.pc = "done" =>
        /\ NoCaseDuplicates(skillsCall.l1)
        /\ skillsCall.l1 = skillsCall.l1_0 \o
              FirstNewSkills({Lower(skillsCall.l1_0[i]) : i \in DOMAIN skillsCall.l1_0},
                             skillsCall.l2, 1)

\* C7: after merging l2 into an l1 whose category names are distinct ignoring
\* case, no two categories of l1 have the same name ignoring case, and the
\* categories that were in l1 keep their order and the casing of their names
C7_CombineListsCaseInsensitiveCategories ==
    mergeCall.pc = "call" /\ mergeCall.merges = 1 =>
        LET names == CategoryNamesOf(ListValue(mergeCall.heap, mergeCall.l1))
        IN  /\ NoCaseDuplicates(names)
            /\ SubSeq(names, 1, Len(mergeCall.l1_0)) = CategoryNamesOf(mergeCall.l1_0)

\* every category of l2 and every skill in it is in l1 ignoring case
Subsumed(h, l1, l2) ==
    \A k \in DOMAIN l2 : \E i \in DOMAIN l1 :
        /\ Lower(h[l1[i]].category) = Lower(h[l2[k]].category)
        /\ \A x \in Range(h[l2[k]].skills) : \E y \in Range(h[l1[i]].skills) :
               Lower(x) = Lower(y)

\* C8: a merge of an l2 that l1 already holds ignoring case leaves l1
\* unchanged, and merging the same l2 a second time changes neither l1 nor l2
C8_MergeIdempotent ==
    [][(mergeCall.pc = "call" /\ mergeCall'.merges = mergeCall.merges + 1) =>
         LET before1 == ListValue(mergeCall.heap, mergeCall.l1)
             before2 == ListValue(mergeCall.heap, mergeCall.l2)
             after1 == ListValue(mergeCall'.heap, mergeCall'.l1)
             after2 == ListValue(mergeCall'.heap, mergeCall'.l2)
         IN  /\ Subsumed(mergeCall.heap, mergeCall.l1, mergeCall.l2) => after1 = before1
             /\ mergeCall.merges >= 1 => after1 = before1 /\ after2 = before2]_vars

\* C9: merging l2 into l1 and then l3 into l1 gives the same category list as
\* merging l3 into l2 and then l2 into l1
C9_MergeAssociative ==
    (assocCall.pc = "call" /\ assocCall.left # None /\ assocCall.right # None) =>
        assocCall.left = assocCall.right

\* both groupings done where l1 is empty, l2 names one category twice in
\* different casing and l3 names it again: l3's skills went to the second
C9_Witness ==
    /\ assocCall.pc = "call" /\ assocCall.left # None /\ assocCall.right # None
    /\ assocCall.l1 = <<>>
    /\ assocCall.l2 = <<[category |-> "Technical", skills |-> <<"sql">>],
                        [category |-> "TECHNICAL", skills |-> <<>>]>>
    /\ assocCall.l3 = <<[category |-> "Technical", skills |-> <<"git", "Sql">>]>>
    /\ assocCall.right = Some(<<[category |-> "Technical", skills |-> <<"sql">>],
                                [category |-> "TECHNICAL", skills |-> <<"git", "Sql">>]>>)

\* the months of the titles of a list, added up
RECURSIVE SumOfMonths(_, _)
SumOfMonths(titles, k) ==
    IF k = 0 THEN 0
    ELSE SumOfMonths(titles, k - 1)
           + datediff_years(titles[k]["startdate"],
                            IF titles[k]["enddate"] = "current" THEN Today
                            ELSE titles[k]["enddate"])

\* C10: the cumulative duration of titles that all have both dates is the sum
\* of their durations in years and months / 12, rounded to the nearest
\* integer, a half rounded up
C10_CumulativeRoundsHalfUp ==
    (timeCall.pc = "done" /\ \A k \in DOMAIN timeCall.titles : HasDates(timeCall.titles[k])) =>
        /\ timeCall.status = "ok"
        /\ timeCall.value = (SumOfMonths(timeCall.titles, Len(timeCall.titles)) + 6) \div 12

----------------------------------------------------------------------------
(* Properties of the pipeline *)

\* C1 as the specification states it: a call of parse_job_post on a job post
\* that is already parsed issues no chain call and returns the stored record
C1_ParseJobPostMemoized ==
    [][(ret'.op = "parse_job_post" /\ parsed_job # None) =>
          (llm_calls' = llm_calls /\ parsed_job' = parsed_job)]_vars

\* C1, amended: every call of parse_job_post runs the extraction again, also
\* on a parsed job post: it issues the description call and, if that returns,
\* the skills call, and when both return it assigns parsed_job anew
C1_ParseJobPostAlwaysExtracts ==
    [][ret'.op = "parse_job_post" =>
          /\ ret'.calls \in {1, 2}
          /\ llm_calls' = llm_calls + ret'.calls
          /\ ret'.status = "ok" => ret'.calls = 2 /\ parsed_job' = ret'.value
          /\ ret'.status # "ok" => parsed_job' = parsed_job]_vars

\* parse_job_post returned twice on one job post, no builder was made: four
\* chain calls
C1_Witness ==
    /\ ret.op = "parse_job_post" /\ ret.status = "ok"
    /\ llm_calls = 4
    /\ \A b \in Builders : builders[b] = None

\* C2: where a builder exists the job is parsed, and constructing a builder
\* over a parsed job post issues no chain call, leaves parsed_job as it is and
\* returns the builder
C2_BuilderImpliesParsed ==
    /\ [](\A b \in Builders : builders[b] # None => parsed_job # None)
    /\ [][\A b \in Builders :
            (ret'.op = "Resume_Builder" /\ ret'.b = b /\ parsed_job # None) =>
                /\ llm_calls' = llm_calls
                /\ parsed_job' = parsed_job
                /\ builders'[b] # None]_vars

\* two builders built over one job post, one extraction
C2_Witness ==
    /\ \A b \in Builders : builders[b] # None
    /\ llm_calls = 2
    /\ ret.op = "Resume_Builder" /\ ret.calls = 0

Stages == {"rewrite_unedited_experiences", "extract_skills", "suggest_improvements",
           "create_summary"}

WellFormed(experiences) ==
    \A k \in DOMAIN experiences :
        "titles" \in DOMAIN experiences[k] =>
            \A i \in DOMAIN experiences[k]["titles"] :
                {"startdate", "enddate"} \subseteq DOMAIN experiences[k]["titles"][i]

SectionOutputs == {SortedSection(a["items"]) : a \in ResumeListAnswers}

\* C5 as the specification states it: one entry per raw entry, an entry with
\* an "unedited" block gets rewritten highlights, an entry without one is
\* returned equal to the raw entry
C5_RewriteUneditedAsStated ==
    (ret.op = "rewrite_unedited_experiences" /\ ret.status = "ok") =>
        LET experiences_raw == builders[ret.b].experiences_raw
        IN  /\ Len(ret.value) = Len(experiences_raw)
            /\ \A k \in DOMAIN experiences_raw :
                  IF "unedited" \in DOMAIN experiences_raw[k]
                  THEN ret.value[k]["highlights"] \in SectionOutputs
                  ELSE ret.value[k] = experiences_raw[k]

\* C5, amended: one entry per raw entry, in order; an entry whose "unedited"
\* block is not empty loses the block and gets rewritten highlights, its
\* other fields untouched; an entry whose block is empty loses the block and
\* keeps its highlights; an entry without the key is returned equal
C5_RewriteUneditedNonEmpty ==
    (ret.op = "rewrite_unedited_experiences" /\ ret.status = "ok") =>
        LET experiences_raw == builders[ret.b].experiences_raw
        IN  /\ Len(ret.value) = Len(experiences_raw)
            /\ \A k \in DOMAIN experiences_raw :
                  LET exp_raw == experiences_raw[k]
                      rest == DOMAIN exp_raw \ {"unedited", "highlights"}
                  IN  IF "unedited" \notin DOMAIN exp_raw THEN ret.value[k] = exp_raw
                      ELSE /\ \A key \in rest : ret.value[k][key] = exp_raw[key]
                           /\ IF exp_raw["unedited"] # ""
                              THEN /\ DOMAIN ret.value[k] = rest \cup {"highlights"}
                                   /\ ret.value[k]["highlights"] \in SectionOutputs
                              ELSE /\ DOMAIN ret.value[k] = DOMAIN exp_raw \ {"unedited"}
                                   /\ ret.value[k]["highlights"] = exp_raw["highlights"]

\* a rewritten entry, then one with an empty block, returned in that order
C5_Witness ==
    /\ ret.op = "rewrite_unedited_experiences" /\ ret.status = "ok"
    /\ Len(ret.value) = 2
    /\ \A k \in 1..2 : "unedited" \in DOMAIN builders[ret.b].experiences_raw[k]
    /\ builders[ret.b].experiences_raw[1]["unedited"] = "wrote code"
    /\ ret.value[1]["highlights"] = <<"built", "led">>
    /\ builders[ret.b].experiences_raw[2]["unedited"] = ""
    /\ ret.value[2]["highlights"] = <<"kept">>

\* the rendered fixes of the language check answer
RenderedFixes(answer2) ==
    [i \in DOMAIN answer2["fixes"] |->
        <<answer2["fixes"][i]["error"], " -> ", answer2["fixes"][i]["fix"]>>]

\* the report is the given list followed by exactly one entry, the dict
\* labeled "Language improvements" that holds the rendered fixes
ReportIs(report, list, answer2) ==
    /\ Len(report) = Len(list) + 1
    /\ \A i \in DOMAIN list : report[i] = list[i]
    /\ DOMAIN report[Len(list) + 1] = {"Language improvements"}
    /\ report[Len(list) + 1]["Language improvements"] = RenderedFixes(answer2)

\* C11 as the specification states it: the report holds the missing
\* requirements and the improvements of the improvement chain, followed by
\* the language fixes as one final labeled entry
C11_ReportCarriesMissingRequirements ==
    (ret.op = "suggest_improvements" /\ ret.status = "ok") =>
        LET answer1 == ret.log[1].answer
            answer2 == ret.log[2].answer
        IN  ReportIs(ret.value,
                     answer1["missing_requirements"] \o answer1["improvements"], answer2)

\* C11, amended: the report is the improvements list of the improvement
\* chain alone (its missing_requirements list is dropped), followed by the
\* fixes of the language check chain rendered as "error -> fix" and appended
\* as exactly one final labeled entry, present also when there is no fix
C11_ReportIsImprovementsAndLanguageEntry ==
    (ret.op = "suggest_improvements" /\ ret.status = "ok") =>
        LET answer1 == ret.log[1].answer
            answer2 == ret.log[2].answer
        IN  /\ Len(ret.log) = 2
            /\ ret.log[1].chain = "_improver_chain"
            /\ ret.log[2].chain = "_language_check_chain"
            /\ ReportIs(ret.value, answer1["improvements"], answer2)

\* a report made from a language check answer without fixes: the labeled
\* entry is there and holds an empty list
C11_Witness ==
    /\ ret.op = "suggest_improvements" /\ ret.status = "ok"
    /\ ret.log[1].answer["missing_requirements"] = <<"degree">>
    /\ ret.log[2].answer["fixes"] = <<>>
    /\ Len(ret.value) = 2
    /\ ret.value[1] = "add metrics"
    /\ ret.value[2]["Language improvements"] = <<>>

FinalKeys == {"basic", "summary", "education", "projects", "experiences", "skills"}

\* C12: finalize issues no chain call and changes no field of the builder,
\* the raw resume or the job post, in whatever state the builder is; the
\* record it returns has exactly the keys basic, summary, education,
\* projects, experiences, skills with the builder's current values (None for
\* an unset field), and two calls in a row return equal records
C12_FinalizePureAssembly ==
    /\ [](ret.op = "finalize" =>
             LET bd == builders[ret.b]
             IN  /\ Len(ret.value) \in {1, 2}
                 /\ \A i \in DOMAIN ret.value :
                       /\ DOMAIN ret.value[i] = FinalKeys
                       /\ ret.value[i]["basic"] = bd.basic_info
                       /\ ret.value[i]["summary"] = bd.summary
                       /\ ret.value[i]["education"] = bd.education
                       /\ ret.value[i]["projects"] = bd.projects
                       /\ ret.value[i]["experiences"] = bd.experiences
                       /\ ret.value[i]["skills"] = bd.skills
                 /\ Len(ret.value) = 2 => ret.value[1] = ret.value[2]
                 /\ ret.calls = 0 /\ ret.status = "ok")
    /\ [][ret'.op = "finalize" =>
            UNCHANGED <<llm_calls, builders, parsed_job, raw>>]_vars

\* finalize called twice in a row between two stages: the experiences are
\* assigned, the skills and the summary are not yet
C12_Witness ==
    /\ ret.op = "finalize" /\ Len(ret.value) = 2
    /\ builders[ret.b].experiences # None
    /\ Len(builders[ret.b].experiences.some) = 2
    /\ ret.value[2]["experiences"] = builders[ret.b].experiences
    /\ ret.value[2]["skills"] = None
    /\ ret.value[2]["summary"] = None

\* the operations that call chains
ChainOps == {"parse_job_post", "Resume_Builder", "rewrite_section",
             "rewrite_unedited_experiences", "extract_skills", "suggest_improvements",
             "create_summary"}

\* what ret.value holds when the operation raised
NoValue(op) ==
    CASE op \in {"parse_job_post", "Resume_Builder"} -> None
      [] op = "create_summary" -> ""
      [] OTHER -> <<>>

\* C13: when a chain call fails inside a stage, the stage raises that error:
\* the failed call is the last chain call of the stage (it is not retried
\* and no later call is issued), nothing is returned, and the builders, the
\* raw resume and parsed_job are as they were before the stage was invoked
C13_ChainFailureAborts ==
    [][(ret'.op \in ChainOps /\ \E i \in DOMAIN ret'.log : ret'.log[i].answer = LLMFail) =>
          /\ ret'.status = "ChainError"
          /\ \A i \in DOMAIN ret'.log : ret'.log[i].answer = LLMFail <=> i = Len(ret'.log)
          /\ llm_calls' = llm_calls + Len(ret'.log)
          /\ ret'.value = NoValue(ret'.op)
          /\ UNCHANGED <<builders, raw, parsed_job>>]_vars

\* the rewrite of the second of two unedited entries failed after the first
\* was rewritten: two chain calls, nothing returned
C13_Witness ==
    /\ ret.op = "rewrite_unedited_experiences" /\ ret.status = "ChainError"
    /\ Len(ret.log) = 2
    /\ ret.log[1].answer # LLMFail
    /\ ret.log[2].answer = LLMFail
    /\ ret.value = <<>>
    /\ builders[ret.b].experiences = None

\* C14: a run of parse_job_post calls the job description chain on the
\* posting and only when that has returned the skills chain, whose prompt is
\* filled from the duties and the skill_and_experience_requirements of the
\* first answer and from nothing else; when both return, parsed_job becomes
\* the union of the two answers, whose key sets are disjoint, with every
\* field of the first answer as it was returned; when either call fails
\* parsed_job is left as it was (unset if it was unset), and when the first
\* fails the second is not issued
C14_ParseJobPostSequential ==
    [][(ret'.op \in {"parse_job_post", "Resume_Builder"} /\ ret'.log # <<>>) =>
          LET log == ret'.log
              first == log[1].answer
              second == log[2].answer
          IN  /\ Len(log) \in {1, 2}
              /\ log[1].chain = "_parser_chain"
              /\ log[1].inputs = [input |-> Posting]
              /\ first = LLMFail => Len(log) = 1 /\ parsed_job' = parsed_job
              /\ first # LLMFail =>
                    /\ Len(log) = 2
                    /\ log[2].chain = "_skills_extractor_chain"
                    /\ DOMAIN log[2].inputs =
                          {"duties", "skill_and_experience_requirements"}
                    /\ \A k \in DOMAIN log[2].inputs : log[2].inputs[k] = first[k]
                    /\ second = LLMFail => parsed_job' = parsed_job
                    /\ second # LLMFail =>
                          /\ DOMAIN first \cap DOMAIN second = {}
                          /\ DOMAIN parsed_job' = DOMAIN first \cup DOMAIN second
                          /\ \A k \in DOMAIN first : parsed_job'[k] = first[k]
                          /\ \A k \in DOMAIN second : parsed_job'[k] = second[k]
                          /\ ret'.op = "parse_job_post" => ret'.value = parsed_job'
              /\ ret'.status = "ok" <=> (first # LLMFail /\ second # LLMFail)]_vars

\* the skills chain was called with the two duties of the first answer and
\* failed: parsed_job is still unset
C14_Witness ==
    /\ ret.op = "parse_job_post" /\ ret.status = "ChainError"
    /\ Len(ret.log) = 2
    /\ ret.log[1].answer["duties"] = <<"build", "lead">>
    /\ ret.log[2].inputs["duties"] = <<"build", "lead">>
    /\ ret.log[2].answer = LLMFail
    /\ parsed_job = None

----------------------------------------------------------------------------
(* Properties of the stages run by threads *)

\* what the section rewriter chain did for each raw entry, read from the log
\* of a run of rewrite_unedited_experiences: the chain is called once for
\* each entry that is rewritten, in order
AnswersOf(experiences_raw, log) ==
    [k \in DOMAIN experiences_raw |->
        LET j == Cardinality({i \in 1..k : Rewritten(experiences_raw[i])})
        IN  IF Rewritten(experiences_raw[k]) /\ j <= Len(log)
            THEN log[j].answer ELSE LLMFail]

\* what the stage of a thread returns when it runs alone on the builder and
\* the chains answer as they answered the thread
ReturnsAlone(th, bd) ==
    CASE th.stage = "rewrite_section" -> SortedSection(th.log[1].answer["items"])
      [] th.stage = "rewrite_unedited_experiences" ->
             rewrite_unedited_experiences(bd.experiences_raw,
                                          AnswersOf(bd.experiences_raw, th.log)).value
      [] th.stage = "extract_skills" -> extract_skills(bd, th.log[1].answer).value
      [] th.stage = "suggest_improvements" ->
             ImprovementReport(th.log[1].answer, th.log[2].answer)
      [] th.stage = "create_summary" -> th.log[1].answer["summary"]

\* C15: in every interleaving of the steps of two stages run on one builder,
\* no step changes a field of the builder, the raw resume (the skill lists
\* inside skills_raw included) or parsed_job, and a stage that completes
\* returns what it returns when it runs alone
C15_StagesLeaveSharedStateUnchanged ==
    /\ [][UNCHANGED <<builders, raw, parsed_job>>]_vars
    /\ [](\A t \in Threads :
             (par.threads[t].pc = "done" /\ par.threads[t].status = "ok") =>
                 par.threads[t].value = ReturnsAlone(par.threads[t], builders[TheBuilder]))

\* extract_skills and rewrite_unedited_experiences both completed: the first
\* merged the raw TECHNICAL category into its own Technical one, the second
\* rewrote an unedited entry, and the raw resume still holds both as they were
C15_Witness ==
    /\ par.threads["t1"].stage = "extract_skills"
    /\ par.threads["t1"].pc = "done" /\ par.threads["t1"].status = "ok"
    /\ par.threads["t1"].value[1] = [category |-> "Technical", skills |-> <<"git", "SQL">>]
    /\ raw.skills[1] = [category |-> "TECHNICAL", skills |-> <<"SQL">>]
    /\ par.threads["t2"].stage = "rewrite_unedited_experiences"
    /\ par.threads["t2"].pc = "done" /\ par.threads["t2"].status = "ok"
    /\ Len(raw.experiences) = 2
    /\ "unedited" \in DOMAIN raw.experiences[2]
    /\ raw.experiences[2]["unedited"] = "wrote code"
    /\ par.threads["t2"].value[2]["highlights"] = <<"built", "led">>

----------------------------------------------------------------------------
(* Properties of the cumulative duration of incomplete titles *)

\* the months of the titles of a list that have both dates, each from its
\* own startdate to its own enddate, added up
RECURSIVE OwnMonths(_, _)
OwnMonths(titles, k) ==
    IF k = 0 THEN 0
    ELSE OwnMonths(titles, k - 1)
           + (IF HasDates(titles[k])
              THEN datediff_years(titles[k]["startdate"],
                                  IF titles[k]["enddate"] = "current" THEN Today
                                  ELSE titles[k]["enddate"])
              ELSE 0)

\* C16: the cumulative duration is computed without error for every list of
\* titles and is the rounded sum of the durations of the titles that have
\* both dates, each taken to its own end date (today for "current"); a title
\* that lacks a date adds nothing
C16_TitlesContributeOwnRange ==
    timeCall.pc = "done" =>
        /\ timeCall.status = "ok"
        /\ timeCall.value = RoundTwelfths(OwnMonths(timeCall.titles, Len(timeCall.titles)))

----------------------------------------------------------------------------
(* Properties of the constructors run by threads *)

\* C17: in every interleaving of two constructors over one job post that is
\* not parsed yet, the job is extracted at most once: while no chain call
\* has failed at most two chain calls are issued in total, and parsed_job,
\* once set, is not assigned again
C17_ConcurrentConstructorsExtractOnce ==
    /\ []((\A c \in Builders : ctor[c].pc # "raised") => llm_calls <= 2)
    /\ [][parsed_job # None => parsed_job' = parsed_job]_vars

====
